---- MODULE Spec2Model ----
(***************************************************************************)
(* Model of the inventory API: bearer-token authentication (Register,      *)
(* Login, RefreshToken, AuthMiddleware) and the per-record ownership       *)
(* checks of the item and location handlers, over a relational store       *)
(* reached through GORM.                                                   *)
(*                                                                         *)
(* Each HTTP request is one action: the middleware and the handler run to  *)
(* completion on the store (one request at a time).  SpecRace alone runs   *)
(* one update or delete handler in two steps, its read and its write, with *)
(* other requests in between.                                              *)
(***************************************************************************)
EXTENDS Integers, FiniteSets, Sequences, TLC

VARIABLES
    users,      \* users table: id -> [email, password, deleted]; lastSet
                \* is history only: the password most recently set
    userSeq,    \* last value of the users id sequence
    items,      \* items table: id -> [user_id, location_id, created_at]
    itemSeq,    \* last value of the items id sequence
    locations,  \* locations table: id -> [user_id, name]
    locSeq,     \* last value of the locations id sequence
    now,        \* time.Now().Unix()
    ticks,      \* clock steps taken
    issued,     \* token pairs returned to clients so far
    resp,       \* the last request and its response
    pending     \* a handler that has done its read and not yet its write

vars == <<users, userSeq, items, itemSeq, locations, locSeq, now, ticks,
          issued, resp, pending>>

-----------------------------------------------------------------------------
(* Bounds of the model                                                     *)

MaxUsers == 3       \* rows the users table may hold
MaxItems == 2       \* item ids in use
MaxLocations == 2   \* location ids in use
MaxIssued == 3      \* token pairs handed out
MaxTicks == 1       \* clock steps

-----------------------------------------------------------------------------
(* uint values.  A Go uint is 64 bits wide; a value v is written as the    *)
(* pair <<hi, lo>> with v = hi * Base + lo, so that values around 2^53     *)
(* can be written down.                                                    *)

Base == 2 ^ 26
Mantissa == 2 ^ 27              \* <<Mantissa, 0>> is 2^53

U(n) == <<0, n>>
BigID == <<Mantissa, 0>>        \* 9007199254740992
BigID1 == <<Mantissa, 1>>       \* 9007199254740993

IsZero(v) == v = U(0)

\* strconv.ParseFloat(numeral, 64) of a numeral below 2^54: exact below 2^53,
\* above it the nearest even integer, ties to the even mantissa.
ParseFloat64(v) ==
    IF v[1] < Mantissa \/ v[2] % 2 = 0 THEN v
    ELSE IF ((v[2] - 1) \div 2) % 2 = 0 THEN <<v[1], v[2] - 1>>
    ELSE IF v[2] + 1 = Base THEN <<v[1] + 1, 0>>
    ELSE <<v[1], v[2] + 1>>

\* uint(f) of a float64 holding a non-negative integer
UintOfFloat(f) == f

-----------------------------------------------------------------------------
(* Tables                                                                  *)

Put(t, k, v) == [x \in DOMAIN t \cup {k} |-> IF x = k THEN v ELSE t[x]]
Del(t, k) == [x \in DOMAIN t \ {k} |-> t[x]]
EmptyTable == [x \in {} |-> x]

Absent == 0 - 1                 \* a JSON field the body does not carry
NoUser == <<0 - 1, 0>>          \* no "user_id" in the gin context
\* the empty string where a token is expected
NoToken == [malformed |-> TRUE, alg |-> "", key |-> "", typ |-> "",
            user_id |-> NoUser, exp |-> 0, iat |-> 0]

-----------------------------------------------------------------------------
(* Tokens.  A token on the wire is its header algorithm, the key its       *)
(* signature was computed with, and its claims; user_id is the numeral     *)
(* written in the claims JSON (NoUser when the claim is missing).          *)

JWT_SECRET_KEY == "process-secret"
AccessTTL == 3600
RefreshTTL == 604800
HMACMethods == {"HS256", "HS384", "HS512"}
RegisteredMethods == HMACMethods \cup {"RS256", "none"}
JwtVersions == {"exp-exclusive", "exp-inclusive"}

Token(alg, key, typ, uid, exp, iat) ==
    [malformed |-> FALSE, alg |-> alg, key |-> key, typ |-> typ,
     user_id |-> uid, exp |-> exp, iat |-> iat]

\* generateTokens(userID) at time t
AccessToken(userID, t) ==
    Token("HS256", JWT_SECRET_KEY, "access", userID, t + AccessTTL, t)
RefreshTokenShortLived(userID, t) ==
    Token("HS256", JWT_SECRET_KEY, "refresh", userID, t + AccessTTL, t)
RefreshTokenOf(userID, t) ==
    Token("HS256", JWT_SECRET_KEY, "refresh", userID, t + RefreshTTL, t)
generateTokens(userID, t) ==
    [subject |-> userID,
     access  |-> AccessToken(userID, t),
     refresh |-> RefreshTokenOf(userID, t)]

\* the key function handed to jwt.Parse: the method must be an HMAC one
KeyFuncOK(alg) == alg \in HMACMethods

\* HMAC verification of the signature against the process secret
VerifyAnyKey(tok) == TRUE
SignatureOK(tok) == tok.key = JWT_SECRET_KEY

\* MapClaims.Valid(): exp (the boundary second depends on the library
\* release) and iat
ClaimsValid(tok, t, lib) ==
    /\ IF lib = "exp-inclusive" THEN t <= tok.exp ELSE t < tok.exp
    /\ tok.iat <= t

\* jwt.Parse(tokenString, keyFunc): err = nil exactly when token.Valid
JwtParse(tok, t, lib) ==
    LET ok == /\ ~tok.malformed
              /\ tok.alg \in RegisteredMethods
              /\ KeyFuncOK(tok.alg)
              /\ ClaimsValid(tok, t, lib)
              /\ SignatureOK(tok)
    IN [err |-> ~ok, valid |-> ok,
        type |-> tok.typ,
        \* the claims are decoded into a map: numbers become float64
        user_id |-> IF tok.user_id = NoUser THEN NoUser
                    ELSE ParseFloat64(tok.user_id)]

-----------------------------------------------------------------------------
(* AuthMiddleware.  A credential is the Authorization header: its scheme   *)
(* ("" when the header is absent) and the token after "Bearer ".           *)

Cred(scheme, tok) == [scheme |-> scheme, token |-> tok]
NoHeader == Cred("", NoToken)

MsgHeaderRequired == "Authorization header required"
MsgInvalidOrExpired == "Invalid or expired token"
MsgInvalidToken == "Invalid token"
MsgClaimsParse == "Failed to parse token claims"
MsgInvalidType == "Invalid token type"

Halt(status, body) ==
    [status |-> status, body |-> body, next |-> FALSE, user_id |-> NoUser]

\* what the middleware does once a check has failed: c.JSON, c.Abort, return
RejectWithoutAbort(status, body) == [Halt(status, body) EXCEPT !.next = TRUE]
RejectAsForbidden(status, body) == Halt(403, body)
Reject(status, body) == Halt(status, body)

\* the "type" claim the middleware requires
TypeIsAccessOrRefresh(claimType) == claimType \in {"access", "refresh"}
TypeIsAccess(claimType) == claimType = "access"

AuthMiddleware(cred, t, lib) ==
    IF cred.scheme # "Bearer" THEN Reject(401, MsgHeaderRequired)
    ELSE LET token == JwtParse(cred.token, t, lib) IN
         IF token.err THEN Reject(401, MsgInvalidOrExpired)
         ELSE IF ~token.valid THEN Reject(401, MsgInvalidToken)
         ELSE IF ~TypeIsAccess(token.type) THEN Reject(401, MsgInvalidType)
         \* claims["user_id"].(float64) panics on a missing claim; gin's
         \* Recovery middleware answers 500 and aborts
         ELSE IF token.user_id = NoUser THEN Halt(500, "")
         ELSE [status |-> 200, body |-> "", next |-> TRUE,
               user_id |-> UintOfFloat(token.user_id)]

\* GetUserID(c)
GetUserID(auth) == IF auth.user_id = NoUser THEN U(0) ELSE auth.user_id

-----------------------------------------------------------------------------
(* Requests and responses                                                  *)

\* the email and password of a request body ("" and <<>> when not carried)
NoInput == [email |-> "", password |-> <<>>]

NoResp ==
    [op |-> "", status |-> 0, body |-> "", cred |-> NoHeader,
     user_id |-> NoUser, ran |-> FALSE, target |-> Absent, uid |-> NoUser,
     owner |-> NoUser, data |-> {}, minted |-> {}, input |-> NoInput]

\* no handler is between its read and its write
NoHandler ==
    [op |-> "", cred |-> NoHeader, auth |-> Halt(0, ""), target |-> Absent,
     row |-> <<>>]

\* a handler that has read row, the record of id target, and passed its checks
Midway(op, cred, auth, target, row) ==
    [op |-> op, cred |-> cred, auth |-> auth, target |-> target, row |-> row]

\* a public route answered by its handler
Public(op, status, body) ==
    [NoResp EXCEPT !.op = op, !.status = status, !.body = body, !.ran = TRUE]

\* a public route whose body carries an email and a password
PublicWith(op, email, password, status, body) ==
    [Public(op, status, body)
        EXCEPT !.input = [email |-> email, password |-> password]]

\* a protected route stopped by the middleware
Stopped(op, cred, auth) ==
    [NoResp EXCEPT !.op = op, !.status = auth.status, !.body = auth.body,
                   !.cred = cred]

\* a protected route answered by its handler
Handled(op, cred, auth, status, body) ==
    [NoResp EXCEPT !.op = op, !.status = status, !.body = body,
                   !.cred = cred, !.user_id = auth.user_id, !.ran = TRUE]

-----------------------------------------------------------------------------
(* Users table and the auth routes                                         *)

MinPasswordLen == 6
Emails == {"a@x.io", "b@x.io", "c@x.io"}
BadEmail == "not-an-email"
Password1 == <<1, 1, 1, 1, 1, 1>>
Password2 == <<2, 2, 2, 2, 2, 2>>
ShortPassword == <<1>>
NoPassword == <<>>

\* bcrypt works on at most 72 bytes of key
BcryptKeyLen == 72
LongPassword == [i \in 1 .. BcryptKeyLen |-> 1]
LongerPassword == LongPassword \o <<2>>
NulPassword == <<0>>            \* the one-character string "\u0000"

\* the Blowfish key bcrypt derives from a password: the bytes followed by a
\* NUL, repeated cyclically, of which the key schedule reads BcryptKeyLen
BcryptKey(password) ==
    LET key == password \o <<0>> IN
    [i \in 1 .. BcryptKeyLen |-> key[((i - 1) % Len(key)) + 1]]

\* bcrypt.GenerateFromPassword, of a password of at most BcryptKeyLen bytes
\* (the salt is left out: it is stored with the hash and reused to compare)
Hash(password) == [bcrypt |-> BcryptKey(password)]
\* bcrypt.CompareHashAndPassword: nil when bcrypt of the password under the
\* stored salt and cost is the stored hash
CompareHashAndPassword(hash, password) == hash.bcrypt = BcryptKey(password)

ValidEmail(email) == email \in Emails

\* rows visible to queries: gorm hides soft-deleted rows
Live(u) == {id \in DOMAIN u : ~u[id].deleted}
\* the unique index on email covers every row, deleted or not
EmailNeverTaken(u, email) == FALSE
EmailTaken(u, email) == \E id \in DOMAIN u : u[id].email = email

CanIssue(pair) == pair \in issued \/ Cardinality(issued) < MaxIssued

UNCHANGED_STORE == UNCHANGED <<items, itemSeq, locations, locSeq>>

MsgInvalidInput == "Invalid input"
MsgCreateUserFailed == "Failed to create user. Email might already be registered."
MsgRegistered == "User registered successfully"

\* POST /auth/register
Register(email, password) ==
    /\ UNCHANGED_STORE
    /\ UNCHANGED <<now, ticks, pending>>
    /\ IF ~ValidEmail(email) \/ Len(password) < MinPasswordLen
       THEN /\ resp' = PublicWith("Register", email, password,
                                   400, MsgInvalidInput)
            /\ UNCHANGED <<users, userSeq, issued>>
       ELSE \* DB.Create(&user) with a zero ID: the id comes from the sequence
            /\ userSeq < MaxUsers
            /\ LET id == U(userSeq + 1)
                   pair == generateTokens(id, now) IN
               /\ userSeq' = userSeq + 1
               /\ IF id \in DOMAIN users \/ EmailTaken(users, email)
                  THEN /\ resp' = PublicWith("Register", email, password,
                                              500, MsgCreateUserFailed)
                       /\ UNCHANGED <<users, issued>>
                  ELSE /\ CanIssue(pair)
                       /\ users' = Put(users, id,
                              [email |-> email, password |-> Hash(password),
                               deleted |-> FALSE, lastSet |-> password])
                       /\ issued' = issued \cup {pair}
                       /\ resp' = [PublicWith("Register", email, password,
                                              201, MsgRegistered)
                                      EXCEPT !.uid = id, !.minted = {pair}]

MsgInvalidCredentials == "Invalid credentials"
MsgUserNotFound == "User not found"
MsgLoginOK == "Login successful"

\* the answers of Login to an email without a live record and to a
\* password that does not match the stored hash
NoSuchUserAsNotFound == [status |-> 404, body |-> MsgUserNotFound]
NoSuchUser == [status |-> 401, body |-> MsgInvalidCredentials]
WrongPassword == [status |-> 401, body |-> MsgInvalidCredentials]

\* POST /auth/login
Login(email, password) ==
    /\ UNCHANGED_STORE
    /\ UNCHANGED <<users, userSeq, now, ticks, pending>>
    /\ LET answer(a) ==
               /\ resp' = PublicWith("Login", email, password,
                                     a.status, a.body)
               /\ UNCHANGED issued
       IN
       IF ~ValidEmail(email) \/ password = NoPassword
       THEN answer([status |-> 400, body |-> MsgInvalidInput])
       ELSE LET found == {id \in Live(users) : users[id].email = email} IN
            IF found = {} THEN answer(NoSuchUser)
            ELSE LET id == CHOOSE x \in found : TRUE
                     pair == generateTokens(id, now) IN
                 IF ~CompareHashAndPassword(users[id].password, password)
                 THEN answer(WrongPassword)
                 ELSE /\ CanIssue(pair)
                      /\ issued' = issued \cup {pair}
                      /\ resp' = [PublicWith("Login", email, password,
                                             200, MsgLoginOK)
                                     EXCEPT !.uid = id, !.minted = {pair}]

MsgInvalidRefresh == "Invalid or expired refresh token"
MsgInvalidTypeProvided == "Invalid token type provided"
MsgNoUserID == "Could not parse user ID from token"
MsgUserGone == "User associated with token not found"
MsgRefreshed == "Tokens refreshed successfully"

\* the "type" claim RefreshToken requires
TypeIsRefresh(claimType) == claimType = "refresh"

\* DB.First(&user, userID): the live row with that primary key
FindUser(u, id) == id \in Live(u)

\* POST /auth/refresh; the body's refresh_token is tok
RefreshToken(tok, lib) ==
    /\ UNCHANGED_STORE
    /\ UNCHANGED <<users, userSeq, now, ticks, pending>>
    /\ LET token == JwtParse(tok, now, lib)
           refused(status, body) ==
               /\ resp' = [Public("RefreshToken", status, body)
                              EXCEPT !.cred = Cred("body", tok)]
               /\ UNCHANGED issued
       IN
       \* binding:"required": an empty refresh_token is a bad request
       IF tok = NoToken THEN refused(400, MsgInvalidInput)
       ELSE IF token.err \/ ~token.valid THEN refused(401, MsgInvalidRefresh)
       ELSE IF ~TypeIsRefresh(token.type)
            THEN refused(401, MsgInvalidTypeProvided)
       ELSE IF token.user_id = NoUser THEN refused(500, MsgNoUserID)
       ELSE LET userID == UintOfFloat(token.user_id)
                pair == generateTokens(userID, now) IN
            IF ~FindUser(users, userID) THEN refused(401, MsgUserGone)
            ELSE /\ CanIssue(pair)
                 /\ issued' = issued \cup {pair}
                 /\ resp' = [Public("RefreshToken", 200, MsgRefreshed)
                                EXCEPT !.cred = Cred("body", tok),
                                       !.uid = userID, !.minted = {pair}]

MsgCreateFailed == "Failed to create user"
MsgEmailTaken == "Email is already taken"
MsgUpdateUserFailed == "Failed to update user"
MsgUserDeleted == "User successfully deleted"

\* POST /users/ (no middleware).  The body binds models.User: id and email;
\* Password is tagged json:"-", so the stored hash is that of "".
CreateUser(bodyID, email) ==
    /\ UNCHANGED_STORE
    /\ UNCHANGED <<now, ticks, pending, issued>>
    /\ Cardinality(DOMAIN users) < MaxUsers
    /\ IsZero(bodyID) => userSeq < MaxUsers
    /\ LET id == IF IsZero(bodyID) THEN U(userSeq + 1) ELSE bodyID IN
       /\ userSeq' = IF IsZero(bodyID) THEN userSeq + 1 ELSE userSeq
       /\ IF id \in DOMAIN users \/ EmailTaken(users, email)
          THEN /\ resp' = PublicWith("CreateUser", email, NoPassword,
                                      500, MsgCreateFailed)
               /\ UNCHANGED users
          ELSE /\ users' = Put(users, id,
                     [email |-> email, password |-> Hash(NoPassword),
                      deleted |-> FALSE, lastSet |-> NoPassword])
               /\ resp' = [PublicWith("CreateUser", email, NoPassword, 201, "")
                              EXCEPT !.uid = id]

\* PUT /users/:user_id; email = "" and password = <<>> are fields not provided
UpdateUser(cred, lib, userId, email, password) ==
    /\ UNCHANGED_STORE
    /\ UNCHANGED <<userSeq, now, ticks, pending, issued>>
    /\ \E auth \in {AuthMiddleware(cred, now, lib)} :
       LET answer(status, body) ==
               resp' = [Handled("UpdateUser", cred, auth, status, body)
                           EXCEPT !.uid = userId,
                                  !.input = [email |-> email,
                                             password |-> password]]
       IN
       IF ~auth.next
       THEN resp' = Stopped("UpdateUser", cred, auth) /\ UNCHANGED users
       ELSE IF ~FindUser(users, userId)
       THEN answer(404, MsgUserNotFound) /\ UNCHANGED users
       ELSE IF email # "" /\ \E o \in Live(users) \ {userId} :
                                  users[o].email = email
       THEN answer(409, MsgEmailTaken) /\ UNCHANGED users
       ELSE LET user == [users[userId] EXCEPT
                    !.email = IF email # "" THEN email ELSE @,
                    !.password = IF password # NoPassword
                                 THEN Hash(password) ELSE @,
                    !.lastSet = IF password # NoPassword
                                THEN password ELSE @]
            IN \* DB.Save(&user): the unique index also covers deleted rows
               IF \E o \in DOMAIN users \ {userId} : users[o].email = user.email
               THEN answer(500, MsgUpdateUserFailed) /\ UNCHANGED users
               ELSE answer(200, "") /\ users' = Put(users, userId, user)

\* DELETE /users/:user_id: a soft delete
DeleteUser(cred, lib, userId) ==
    /\ UNCHANGED_STORE
    /\ UNCHANGED <<userSeq, now, ticks, pending, issued>>
    /\ \E auth \in {AuthMiddleware(cred, now, lib)} :
       IF ~auth.next
       THEN resp' = Stopped("DeleteUser", cred, auth) /\ UNCHANGED users
       ELSE IF ~FindUser(users, userId)
       THEN /\ resp' = [Handled("DeleteUser", cred, auth, 404, MsgUserNotFound)
                           EXCEPT !.uid = userId]
            /\ UNCHANGED users
       ELSE /\ resp' = [Handled("DeleteUser", cred, auth, 200, MsgUserDeleted)
                           EXCEPT !.uid = userId]
            /\ users' = [users EXCEPT ![userId].deleted = TRUE]

\* the clock
Tick(d) ==
    /\ ticks < MaxTicks
    /\ ticks' = ticks + 1
    /\ now' = now + d
    /\ UNCHANGED <<users, userSeq, items, itemSeq, locations, locSeq,
                   issued, resp, pending>>

-----------------------------------------------------------------------------
(* Items.  A request body is [id, user_id, location_id]; Absent marks a    *)
(* field the JSON does not carry.  location_id stands for every column     *)
(* the handlers bind and store alike (name, description, image_url).       *)

MsgNoUserInToken == "User ID not found in token"
MsgItemNotFound == "Item not found"
MsgItemCreateFailed == "Failed to create item"
MsgItemUpdateFailed == "Failed to update item"
MsgViewForbidden == "You do not have permission to view this item"
MsgUpdateForbidden == "You do not have permission to update this item"
MsgDeleteForbidden == "You do not have permission to delete this item"
MsgItemDeleted == "Item deleted successfully"

UNCHANGED_AUTH == UNCHANGED <<users, userSeq, now, ticks, pending, issued>>

Field(v) == IF v = Absent THEN 0 ELSE v

\* a body c.ShouldBindJSON returns an error for (not JSON, or a field of the
\* wrong type); the handlers answer 400 with the text of the error
Malformed ==
    [id |-> Absent, user_id |-> NoUser, location_id |-> Absent,
     name |-> Absent, malformed |-> TRUE]
MsgBindFailed == "ShouldBindJSON: error"

\* c.ShouldBindJSON(&item) on a fresh struct, then item.UserID = id
NewItemKeepingBodyOwner(body, id) ==
    [user_id |-> body.user_id, location_id |-> Field(body.location_id),
     created_at |-> now]
NewItem(body, id) ==
    [user_id |-> id, location_id |-> Field(body.location_id),
     created_at |-> now]

\* the body carries a "location" object, bound to item.Location
Nested(body) == "location" \in DOMAIN body

\* DB.Create(&item) and DB.Save(&item) first save the Location the item
\* carries, unless it is the zero struct: INSERT ... ON CONFLICT DO NOTHING,
\* with the next sequence value for a zero ID; then item.LocationID is set
\* to the id of that location
SaveBeforeAssociations(body) ==
    IF ~Nested(body)
    THEN [set |-> FALSE, auto |-> FALSE, id |-> 0,
          locations |-> locations, locSeq |-> locSeq]
    ELSE LET loc  == body.location
             auto == Field(loc.id) = 0
             key  == IF auto THEN locSeq + 1 ELSE loc.id
         IN
         [set |-> TRUE, auto |-> auto, id |-> key,
          locations |-> IF key \in DOMAIN locations THEN locations
                        ELSE Put(locations, key,
                                 [user_id |-> loc.user_id,
                                  name |-> Field(loc.name)]),
          locSeq |-> IF auto THEN locSeq + 1 ELSE locSeq]

WithLocation(row, assoc) ==
    IF assoc.set THEN [row EXCEPT !.location_id = assoc.id] ELSE row

\* POST /items/
CreateItem(cred, lib, body) ==
    /\ UNCHANGED_AUTH
    /\ \E auth \in {AuthMiddleware(cred, now, lib)} :
       LET auto == Field(body.id) = 0
           key  == IF auto THEN itemSeq + 1 ELSE body.id
           answer(status, msg) ==
               resp' = [Handled("CreateItem", cred, auth, status, msg)
                           EXCEPT !.target = key,
                                  !.owner = body.user_id]
       IN
       IF ~auth.next
       THEN resp' = Stopped("CreateItem", cred, auth) /\ UNCHANGED_STORE
       ELSE IF body = Malformed
       THEN resp' = Handled("CreateItem", cred, auth, 400, MsgBindFailed)
            /\ UNCHANGED_STORE
       ELSE IF auth.user_id = NoUser
       THEN resp' = Handled("CreateItem", cred, auth, 401, MsgNoUserInToken)
            /\ UNCHANGED_STORE
       ELSE \* DB.Create(&item): a zero ID takes the next sequence value; a
            \* failed INSERT rolls the saved Location back, not the sequences
            \E assoc \in {SaveBeforeAssociations(body)} :
            /\ auto => itemSeq < MaxItems
            /\ assoc.auto => locSeq < MaxLocations
            /\ itemSeq' = IF auto THEN itemSeq + 1 ELSE itemSeq
            /\ locSeq' = assoc.locSeq
            /\ IF key \in DOMAIN items
               THEN answer(500, MsgItemCreateFailed)
                    /\ UNCHANGED <<items, locations>>
               ELSE /\ answer(201, "")
                    /\ locations' = assoc.locations
                    /\ items' = Put(items, key,
                                    WithLocation(NewItem(body, auth.user_id),
                                                 assoc))

\* the Location of an item in a response: the zero struct unless preloaded
ZeroLocation == [user_id |-> U(0), name |-> 0]
ItemView(item, location) ==
    [user_id |-> item.user_id, location_id |-> item.location_id,
     created_at |-> item.created_at, location |-> location]
Plain(item) == ItemView(item, ZeroLocation)
\* DB.Preload(clause.Associations): the row of locations the item points at
Preload(item) ==
    ItemView(item, IF item.location_id \in DOMAIN locations
                   THEN locations[item.location_id] ELSE ZeroLocation)

\* the ownership check of the item handlers: item.UserID != id
NotOwner(item, id) == item.user_id # id

\* GET /items/:item_id
GetItem(cred, lib, itemID) ==
    /\ UNCHANGED_AUTH
    /\ UNCHANGED_STORE
    /\ \E auth \in {AuthMiddleware(cred, now, lib)} :
       LET answer(status, msg) ==
               [Handled("GetItem", cred, auth, status, msg)
                   EXCEPT !.target = itemID]
       IN
       resp' = IF ~auth.next THEN Stopped("GetItem", cred, auth)
               ELSE IF itemID \notin DOMAIN items
               THEN answer(404, MsgItemNotFound)
               ELSE IF auth.user_id = NoUser
               THEN answer(401, MsgNoUserInToken)
               ELSE IF NotOwner(items[itemID], auth.user_id)
               THEN answer(403, MsgViewForbidden)
               ELSE [answer(200, "") EXCEPT !.data = {Preload(items[itemID])}]

\* c.ShouldBindJSON(&item) on the loaded row: fields of the body replace the
\* loaded ones, the primary key included; then item.UserID = originalUserID
BindItemKeepingBodyOwner(id, item, body) ==
    [id |-> IF body.id = Absent THEN id ELSE body.id,
     row |-> [user_id |-> body.user_id,
              location_id |-> IF body.location_id = Absent
                              THEN item.location_id ELSE body.location_id,
              created_at |-> item.created_at]]
BindItem(id, item, body) ==
    [id |-> IF body.id = Absent THEN id ELSE body.id,
     row |-> [user_id |-> item.user_id,
              location_id |-> IF body.location_id = Absent
                              THEN item.location_id ELSE body.location_id,
              created_at |-> item.created_at]]

\* UpdateItem from c.ShouldBindJSON on, with the row DB.First loaded.
\* DB.Save(&item): with a zero primary key an INSERT; otherwise an UPDATE of
\* the row with that key and, when no row has it, an INSERT of it
BindAndSave(cred, auth, itemID, loaded, body) ==
    LET answer(status, msg) ==
            resp' = [Handled("UpdateItem", cred, auth, status, msg)
                        EXCEPT !.target = itemID,
                               !.owner = body.user_id]
        bound == BindItem(itemID, loaded, body)
    IN
    IF body = Malformed
    THEN answer(400, MsgBindFailed) /\ UNCHANGED_STORE
    ELSE \E assoc \in {SaveBeforeAssociations(body)} :
         /\ assoc.auto => locSeq < MaxLocations
         /\ locSeq' = assoc.locSeq
         /\ IF bound.id = 0
            THEN /\ itemSeq < MaxItems
                 /\ itemSeq' = itemSeq + 1
                 /\ IF itemSeq + 1 \in DOMAIN items
                    THEN answer(500, MsgItemUpdateFailed)
                         /\ UNCHANGED <<items, locations>>
                    ELSE /\ answer(200, "")
                         /\ locations' = assoc.locations
                         /\ items' = Put(items, itemSeq + 1,
                                         WithLocation(bound.row, assoc))
            ELSE /\ answer(200, "")
                 /\ locations' = assoc.locations
                 /\ items' = Put(items, bound.id,
                                 WithLocation(bound.row, assoc))
                 /\ UNCHANGED itemSeq

\* PUT /items/:item_id
UpdateItem(cred, lib, itemID, body) ==
    /\ UNCHANGED_AUTH
    /\ \E auth \in {AuthMiddleware(cred, now, lib)} :
       LET answer(status, msg) ==
               resp' = [Handled("UpdateItem", cred, auth, status, msg)
                           EXCEPT !.target = itemID,
                                  !.owner = body.user_id]
       IN
       IF ~auth.next
       THEN resp' = Stopped("UpdateItem", cred, auth) /\ UNCHANGED_STORE
       ELSE IF auth.user_id = NoUser
       THEN answer(401, MsgNoUserInToken) /\ UNCHANGED_STORE
       ELSE IF itemID \notin DOMAIN items
       THEN answer(404, MsgItemNotFound) /\ UNCHANGED_STORE
       ELSE IF NotOwner(items[itemID], auth.user_id)
       THEN answer(403, MsgUpdateForbidden) /\ UNCHANGED_STORE
       ELSE BindAndSave(cred, auth, itemID, items[itemID], body)

\* DeleteItem with the return after the 403 left out: the handler answers
\* the fault and goes on to DB.Delete
DeleteItemWithoutReturn(cred, lib, itemID) ==
    /\ UNCHANGED_AUTH
    /\ UNCHANGED <<locations, locSeq, itemSeq>>
    /\ \E auth \in {AuthMiddleware(cred, now, lib)} :
       LET answer(status, msg) ==
               resp' = [Handled("DeleteItem", cred, auth, status, msg)
                           EXCEPT !.target = itemID]
       IN
       IF ~auth.next
       THEN resp' = Stopped("DeleteItem", cred, auth) /\ UNCHANGED items
       ELSE IF auth.user_id = NoUser
       THEN answer(401, MsgNoUserInToken) /\ UNCHANGED items
       ELSE IF itemID \notin DOMAIN items
       THEN answer(404, MsgItemNotFound) /\ UNCHANGED items
       ELSE IF NotOwner(items[itemID], auth.user_id)
       THEN answer(403, MsgDeleteForbidden) /\ items' = Del(items, itemID)
       ELSE answer(200, MsgItemDeleted) /\ items' = Del(items, itemID)

\* DELETE /items/:item_id
DeleteItem(cred, lib, itemID) ==
    /\ UNCHANGED_AUTH
    /\ UNCHANGED <<locations, locSeq, itemSeq>>
    /\ \E auth \in {AuthMiddleware(cred, now, lib)} :
       LET answer(status, msg) ==
               resp' = [Handled("DeleteItem", cred, auth, status, msg)
                           EXCEPT !.target = itemID]
       IN
       IF ~auth.next
       THEN resp' = Stopped("DeleteItem", cred, auth) /\ UNCHANGED items
       ELSE IF auth.user_id = NoUser
       THEN answer(401, MsgNoUserInToken) /\ UNCHANGED items
       ELSE IF itemID \notin DOMAIN items
       THEN answer(404, MsgItemNotFound) /\ UNCHANGED items
       ELSE IF NotOwner(items[itemID], auth.user_id)
       THEN answer(403, MsgDeleteForbidden) /\ UNCHANGED items
       ELSE answer(200, MsgItemDeleted) /\ items' = Del(items, itemID)

-----------------------------------------------------------------------------
(* Locations.  A location with user_id 0 (or NULL) is public.  A request   *)
(* body is [id, user_id, name].                                            *)

MsgLocationCreateFailed == "Failed to create location"
MsgLocationDenied == "Location not found or access denied"
MsgLocationNoUpdate ==
    "Location not found or you don't have permission to update it"
MsgLocationNoDelete ==
    "Location not found or you don't have permission to delete it"
MsgLocationLinked == "Cannot delete location with linked items"
MsgLocationDeleted == "Location deleted successfully"

\* c.ShouldBindJSON(&location), then location.UserID = userID
NewLocation(body, userID) ==
    [user_id |-> userID, name |-> Field(body.name)]

\* POST /locations/
CreateLocation(cred, lib, body) ==
    /\ UNCHANGED_AUTH
    /\ UNCHANGED <<items, itemSeq>>
    /\ \E auth \in {AuthMiddleware(cred, now, lib)} :
       LET userID == GetUserID(auth)
           auto == Field(body.id) = 0
           key  == IF auto THEN locSeq + 1 ELSE body.id
           answer(status, msg) ==
               resp' = [Handled("CreateLocation", cred, auth, status, msg)
                           EXCEPT !.target = key,
                                  !.owner = body.user_id]
       IN
       IF ~auth.next
       THEN resp' = Stopped("CreateLocation", cred, auth)
            /\ UNCHANGED <<locations, locSeq>>
       ELSE IF body = Malformed
       THEN resp' = Handled("CreateLocation", cred, auth, 400, MsgBindFailed)
            /\ UNCHANGED <<locations, locSeq>>
       ELSE IF IsZero(userID)
       THEN answer(401, MsgNoUserInToken) /\ UNCHANGED <<locations, locSeq>>
       ELSE /\ auto => locSeq < MaxLocations
            /\ locSeq' = IF auto THEN locSeq + 1 ELSE locSeq
            /\ IF key \in DOMAIN locations
               THEN answer(500, MsgLocationCreateFailed) /\ UNCHANGED locations
               ELSE /\ answer(201, "")
                    /\ locations' = Put(locations, key, NewLocation(body, userID))

\* WHERE id = ? AND (user_id = ? OR user_id = 0 OR user_id IS NULL)
ReadableOnlyByOwner(t, id, userID) ==
    id \in DOMAIN t /\ t[id].user_id = userID
Readable(t, id, userID) ==
    id \in DOMAIN t /\ (t[id].user_id = userID \/ IsZero(t[id].user_id))

\* WHERE id = ? AND user_id = ?
Owned(t, id, userID) == id \in DOMAIN t /\ t[id].user_id = userID

\* GET /locations/:location_id
GetLocation(cred, lib, locationID) ==
    /\ UNCHANGED_AUTH
    /\ UNCHANGED_STORE
    /\ \E auth \in {AuthMiddleware(cred, now, lib)} :
       LET userID == GetUserID(auth)
           answer(status, msg) ==
               [Handled("GetLocation", cred, auth, status, msg)
                   EXCEPT !.target = locationID]
       IN
       resp' = IF ~auth.next THEN Stopped("GetLocation", cred, auth)
               ELSE IF IsZero(userID) THEN answer(401, MsgNoUserInToken)
               ELSE IF ~Readable(locations, locationID, userID)
               THEN answer(404, MsgLocationDenied)
               ELSE [answer(200, "") EXCEPT !.data = {locations[locationID]}]

\* PUT /locations/:location_id: the body is bound to updateData and only its
\* name (description, image) is copied to the loaded row
UpdateLocation(cred, lib, locationID, body) ==
    /\ UNCHANGED_AUTH
    /\ UNCHANGED <<items, itemSeq, locSeq>>
    /\ \E auth \in {AuthMiddleware(cred, now, lib)} :
       LET userID == GetUserID(auth)
           answer(status, msg) ==
               resp' = [Handled("UpdateLocation", cred, auth, status, msg)
                           EXCEPT !.target = locationID,
                                  !.owner = body.user_id]
       IN
       IF ~auth.next
       THEN resp' = Stopped("UpdateLocation", cred, auth) /\ UNCHANGED locations
       ELSE IF IsZero(userID)
       THEN answer(401, MsgNoUserInToken) /\ UNCHANGED locations
       ELSE IF ~Owned(locations, locationID, userID)
       THEN answer(404, MsgLocationNoUpdate) /\ UNCHANGED locations
       ELSE IF body = Malformed
       THEN answer(400, MsgBindFailed) /\ UNCHANGED locations
       ELSE /\ answer(200, "")
            /\ locations' = [locations EXCEPT
                                ![locationID].name = Field(body.name)]

\* SELECT count(*) FROM items WHERE location_id = ?
NoLinkedItems(locationID) == 0
LinkedItems(locationID) ==
    Cardinality({i \in DOMAIN items : items[i].location_id = locationID})

\* DELETE /locations/:location_id
DeleteLocation(cred, lib, locationID) ==
    /\ UNCHANGED_AUTH
    /\ UNCHANGED <<items, itemSeq, locSeq>>
    /\ \E auth \in {AuthMiddleware(cred, now, lib)} :
       LET userID == GetUserID(auth)
           answer(status, msg) ==
               resp' = [Handled("DeleteLocation", cred, auth, status, msg)
                           EXCEPT !.target = locationID]
       IN
       IF ~auth.next
       THEN resp' = Stopped("DeleteLocation", cred, auth) /\ UNCHANGED locations
       ELSE IF IsZero(userID)
       THEN answer(401, MsgNoUserInToken) /\ UNCHANGED locations
       ELSE IF ~Owned(locations, locationID, userID)
       THEN answer(404, MsgLocationNoDelete) /\ UNCHANGED locations
       ELSE IF LinkedItems(locationID) > 0
       THEN answer(400, MsgLocationLinked) /\ UNCHANGED locations
       ELSE /\ answer(200, MsgLocationDeleted)
            /\ locations' = Del(locations, locationID)

\* WHERE user_id = ?
ItemsOf(userID) == {i \in DOMAIN items : items[i].user_id = userID}

\* GET /items/
GetAllItems(cred, lib) ==
    /\ UNCHANGED_AUTH
    /\ UNCHANGED_STORE
    /\ \E auth \in {AuthMiddleware(cred, now, lib)} :
       resp' = IF ~auth.next THEN Stopped("GetAllItems", cred, auth)
               ELSE IF auth.user_id = NoUser
               THEN Handled("GetAllItems", cred, auth, 401, MsgNoUserInToken)
               ELSE [Handled("GetAllItems", cred, auth, 200, "")
                        EXCEPT !.data = {Preload(items[i]) :
                                            i \in ItemsOf(auth.user_id)}]

-----------------------------------------------------------------------------
(* Collection reads.  A date parameter is a day number, Absent when the    *)
(* query does not carry it, BadDate when it does not parse.                *)

MsgBadUserID == "Invalid user ID format"
MsgOwnItemsOnly == "You can only view your own items"
MsgDateRequired == "Date parameter is required"
MsgBadDate == "Invalid date format. Use YYYY-MM-DD"
MsgDatesRequired == "Both start_date and end_date parameters are required"
MsgBadStartDate == "Invalid start date format. Use YYYY-MM-DD"
MsgBadEndDate == "Invalid end date format. Use YYYY-MM-DD"
MsgBadPage == "Invalid page parameter"
MsgBadPageSize == "Invalid page_size parameter (must be 1-100)"
MsgDateQueryRequired == "Date query parameter is required"
MsgBadDateOrStamp == "Invalid date format. Use YYYY-MM-DD or Unix timestamp"

BadDate == 0 - 2
SecondsPerDay == 86400
MaxPageSize == 100

\* DATE(created_at)
Day(t) == t \div SecondsPerDay
\* time.Parse("2006-01-02", date): midnight of that day
Midnight(day) == day * SecondsPerDay
\* strconv.ParseUint(requestedUserID, 10, 32)
FitsUint32(v) == v[1] < 2 ^ 6

\* the items a query selects, as the response lists them
ItemsWhere(userID, locationID, day) ==
    {Plain(items[i]) : i \in {j \in ItemsOf(userID) :
        /\ locationID # Absent => items[j].location_id = locationID
        /\ day # Absent => Day(items[j].created_at) = day}}

\* a protected read answered by its handler with a list
Listed(op, cred, auth, rows) ==
    [Handled(op, cred, auth, 200, "") EXCEPT !.data = rows]

\* GET /items/location/:location_id
GetItemByLocation(cred, lib, locationID) ==
    /\ UNCHANGED_AUTH
    /\ UNCHANGED_STORE
    /\ \E auth \in {AuthMiddleware(cred, now, lib)} :
       resp' = IF ~auth.next THEN Stopped("GetItemByLocation", cred, auth)
               ELSE IF auth.user_id = NoUser
               THEN Handled("GetItemByLocation", cred, auth,
                            401, MsgNoUserInToken)
               ELSE Listed("GetItemByLocation", cred, auth,
                           ItemsWhere(auth.user_id, locationID, Absent))

\* GET /items/user/:user_id
GetItemByUser(cred, lib, requested) ==
    /\ UNCHANGED_AUTH
    /\ UNCHANGED_STORE
    /\ \E auth \in {AuthMiddleware(cred, now, lib)} :
       LET answer(status, msg) ==
               [Handled("GetItemByUser", cred, auth, status, msg)
                   EXCEPT !.uid = requested]
       IN
       resp' = IF ~auth.next THEN Stopped("GetItemByUser", cred, auth)
               ELSE IF auth.user_id = NoUser
               THEN answer(401, MsgNoUserInToken)
               ELSE IF ~FitsUint32(requested) THEN answer(400, MsgBadUserID)
               ELSE IF requested # auth.user_id
               THEN answer(403, MsgOwnItemsOnly)
               ELSE [answer(200, "") EXCEPT
                        !.data = ItemsWhere(requested, Absent, Absent)]

\* GET /items/date?date=
GetItemByDate(cred, lib, date) ==
    /\ UNCHANGED_AUTH
    /\ UNCHANGED_STORE
    /\ \E auth \in {AuthMiddleware(cred, now, lib)} :
       LET answer(status, msg) ==
               Handled("GetItemByDate", cred, auth, status, msg)
       IN
       resp' = IF ~auth.next THEN Stopped("GetItemByDate", cred, auth)
               ELSE IF date = Absent THEN answer(400, MsgDateRequired)
               ELSE IF auth.user_id = NoUser
               THEN answer(401, MsgNoUserInToken)
               ELSE IF date = BadDate THEN answer(400, MsgBadDate)
               ELSE Listed("GetItemByDate", cred, auth,
                           ItemsWhere(auth.user_id, Absent, date))

\* GET /items/date-range?start_date=&end_date=
GetItemByDateRange(cred, lib, startDate, endDate) ==
    /\ UNCHANGED_AUTH
    /\ UNCHANGED_STORE
    /\ \E auth \in {AuthMiddleware(cred, now, lib)} :
       LET answer(status, msg) ==
               Handled("GetItemByDateRange", cred, auth, status, msg)
       IN
       resp' = IF ~auth.next THEN Stopped("GetItemByDateRange", cred, auth)
               ELSE IF startDate = Absent \/ endDate = Absent
               THEN answer(400, MsgDatesRequired)
               ELSE IF auth.user_id = NoUser
               THEN answer(401, MsgNoUserInToken)
               ELSE IF startDate = BadDate THEN answer(400, MsgBadStartDate)
               ELSE IF endDate = BadDate THEN answer(400, MsgBadEndDate)
               ELSE Listed("GetItemByDateRange", cred, auth,
                        \* created_at BETWEEN ? AND ? AND user_id = ?
                        {Plain(items[i]) : i \in {j \in ItemsOf(auth.user_id) :
                            /\ Midnight(startDate) <= items[j].created_at
                            /\ items[j].created_at <= Midnight(endDate)}})

\* GET /items/page?page=&page_size=.  The query has no ORDER BY: the page is
\* any pageSize rows of the caller's that the offset leaves.
GetItemByPage(cred, lib, page, pageSize) ==
    /\ UNCHANGED_AUTH
    /\ UNCHANGED_STORE
    /\ \E auth \in {AuthMiddleware(cred, now, lib)} :
       LET answer(status, msg) ==
               Handled("GetItemByPage", cred, auth, status, msg)
           mine == ItemsOf(auth.user_id)
           left == Cardinality(mine) - (page - 1) * pageSize
           size == IF left < 0 THEN 0
                   ELSE IF left < pageSize THEN left ELSE pageSize
       IN
       IF ~auth.next THEN resp' = Stopped("GetItemByPage", cred, auth)
       ELSE IF page < 1 THEN resp' = answer(400, MsgBadPage)
       ELSE IF pageSize < 1 \/ pageSize > MaxPageSize
       THEN resp' = answer(400, MsgBadPageSize)
       ELSE IF auth.user_id = NoUser
       THEN resp' = answer(401, MsgNoUserInToken)
       ELSE \E rows \in SUBSET mine :
                /\ Cardinality(rows) = size
                /\ resp' = Listed("GetItemByPage", cred, auth,
                                  {Plain(items[i]) : i \in rows})

\* GET /items/location/:location_id/date?date= (a date or a Unix timestamp)
GetItemByLocationAndDate(cred, lib, locationID, date) ==
    /\ UNCHANGED_AUTH
    /\ UNCHANGED_STORE
    /\ \E auth \in {AuthMiddleware(cred, now, lib)} :
       LET answer(status, msg) ==
               Handled("GetItemByLocationAndDate", cred, auth, status, msg)
       IN
       resp' = IF ~auth.next
               THEN Stopped("GetItemByLocationAndDate", cred, auth)
               ELSE IF date = Absent THEN answer(400, MsgDateQueryRequired)
               ELSE IF auth.user_id = NoUser
               THEN answer(401, MsgNoUserInToken)
               ELSE IF date = BadDate THEN answer(400, MsgBadDateOrStamp)
               ELSE Listed("GetItemByLocationAndDate", cred, auth,
                           ItemsWhere(auth.user_id, locationID, date))

\* WHERE user_id = ? OR user_id = 0 OR user_id IS NULL
LocationsOf(userID) ==
    {l \in DOMAIN locations :
        locations[l].user_id = userID \/ IsZero(locations[l].user_id)}

\* GET /locations/
GetUserLocations(cred, lib) ==
    /\ UNCHANGED_AUTH
    /\ UNCHANGED_STORE
    /\ \E auth \in {AuthMiddleware(cred, now, lib)} :
       LET userID == GetUserID(auth) IN
       resp' = IF ~auth.next THEN Stopped("GetUserLocations", cred, auth)
               ELSE IF IsZero(userID)
               THEN Handled("GetUserLocations", cred, auth,
                            401, MsgNoUserInToken)
               ELSE Listed("GetUserLocations", cred, auth,
                           {locations[l] : l \in LocationsOf(userID)})

-----------------------------------------------------------------------------
(* The update and delete handlers in two steps.  Each handler makes two    *)
(* round-trips to the database with no transaction around them: the read   *)
(* (DB.First, and DeleteLocation's count) and the write (DB.Save or        *)
(* DB.Delete).  The Read step is the handler up to and including its last  *)
(* check; the Write step is the rest of it, on the row the read returned.  *)

UNCHANGED_CLOCK == UNCHANGED <<users, userSeq, now, ticks, issued>>

\* PUT /items/:item_id up to the ownership check
UpdateItemRead(cred, lib, itemID) ==
    /\ pending = NoHandler
    /\ UNCHANGED_CLOCK
    /\ UNCHANGED_STORE
    /\ \E auth \in {AuthMiddleware(cred, now, lib)} :
       LET answer(status, msg) ==
               /\ resp' = [Handled("UpdateItem", cred, auth, status, msg)
                              EXCEPT !.target = itemID]
               /\ UNCHANGED pending
       IN
       IF ~auth.next
       THEN resp' = Stopped("UpdateItem", cred, auth) /\ UNCHANGED pending
       ELSE IF auth.user_id = NoUser THEN answer(401, MsgNoUserInToken)
       ELSE IF itemID \notin DOMAIN items THEN answer(404, MsgItemNotFound)
       ELSE IF NotOwner(items[itemID], auth.user_id)
       THEN answer(403, MsgUpdateForbidden)
       ELSE /\ pending' = Midway("UpdateItem", cred, auth, itemID,
                                 items[itemID])
            /\ UNCHANGED resp

\* PUT /items/:item_id from c.ShouldBindJSON on, with the row the read loaded
UpdateItemWrite(body) ==
    /\ pending.op = "UpdateItem"
    /\ pending' = NoHandler
    /\ UNCHANGED_CLOCK
    /\ BindAndSave(pending.cred, pending.auth, pending.target, pending.row,
                   body)

\* PUT /locations/:location_id up to the load of the caller's row
UpdateLocationRead(cred, lib, locationID) ==
    /\ pending = NoHandler
    /\ UNCHANGED_CLOCK
    /\ UNCHANGED_STORE
    /\ \E auth \in {AuthMiddleware(cred, now, lib)} :
       LET userID == GetUserID(auth)
           answer(status, msg) ==
               /\ resp' = [Handled("UpdateLocation", cred, auth, status, msg)
                              EXCEPT !.target = locationID]
               /\ UNCHANGED pending
       IN
       IF ~auth.next
       THEN resp' = Stopped("UpdateLocation", cred, auth) /\ UNCHANGED pending
       ELSE IF IsZero(userID) THEN answer(401, MsgNoUserInToken)
       ELSE IF ~Owned(locations, locationID, userID)
       THEN answer(404, MsgLocationNoUpdate)
       ELSE /\ pending' = Midway("UpdateLocation", cred, auth, locationID,
                                 locations[locationID])
            /\ UNCHANGED resp

\* PUT /locations/:location_id from the bind of updateData on:
\* DB.Save(&location) of the loaded row with the body's name
UpdateLocationWrite(body) ==
    /\ pending.op = "UpdateLocation"
    /\ pending' = NoHandler
    /\ UNCHANGED_CLOCK
    /\ UNCHANGED <<items, itemSeq, locSeq>>
    /\ LET answer(status, msg) ==
               resp' = [Handled("UpdateLocation", pending.cred, pending.auth,
                                status, msg)
                           EXCEPT !.target = pending.target,
                                  !.owner = body.user_id]
       IN
       IF body = Malformed
       THEN answer(400, MsgBindFailed) /\ UNCHANGED locations
       ELSE /\ answer(200, "")
            /\ locations' = Put(locations, pending.target,
                                [pending.row EXCEPT !.name = Field(body.name)])

\* DELETE /locations/:location_id up to the count of the linked items
DeleteLocationRead(cred, lib, locationID) ==
    /\ pending = NoHandler
    /\ UNCHANGED_CLOCK
    /\ UNCHANGED_STORE
    /\ \E auth \in {AuthMiddleware(cred, now, lib)} :
       LET userID == GetUserID(auth)
           answer(status, msg) ==
               /\ resp' = [Handled("DeleteLocation", cred, auth, status, msg)
                              EXCEPT !.target = locationID]
               /\ UNCHANGED pending
       IN
       IF ~auth.next
       THEN resp' = Stopped("DeleteLocation", cred, auth) /\ UNCHANGED pending
       ELSE IF IsZero(userID) THEN answer(401, MsgNoUserInToken)
       ELSE IF ~Owned(locations, locationID, userID)
       THEN answer(404, MsgLocationNoDelete)
       ELSE IF LinkedItems(locationID) > 0
       THEN answer(400, MsgLocationLinked)
       ELSE /\ pending' = Midway("DeleteLocation", cred, auth, locationID,
                                 locations[locationID])
            /\ UNCHANGED resp

\* DELETE /locations/:location_id from DB.Delete(&location) on: a DELETE by
\* primary key, which is no error when the row is already gone
DeleteLocationWrite ==
    /\ pending.op = "DeleteLocation"
    /\ pending' = NoHandler
    /\ UNCHANGED_CLOCK
    /\ UNCHANGED <<items, itemSeq, locSeq>>
    /\ resp' = [Handled("DeleteLocation", pending.cred, pending.auth,
                        200, MsgLocationDeleted)
                   EXCEPT !.target = pending.target]
    /\ locations' = Del(locations, pending.target)

-----------------------------------------------------------------------------
(* Requests the clients send                                               *)

OtherSecret == "other-secret"
Garbage == [NoToken EXCEPT !.alg = "garbage"]   \* not a JWT, not empty

IssuedTokens == UNION {{p.access, p.refresh} : p \in issued}

\* tokens built from an issued one: signed with another secret, re-signed
\* under another HMAC method, unsigned, or stripped of a claim
Variants(tok) ==
    {tok,
     [tok EXCEPT !.key = OtherSecret],
     [tok EXCEPT !.alg = "HS384"],
     [tok EXCEPT !.alg = "none", !.key = ""],
     [tok EXCEPT !.user_id = NoUser]}

PresentedTokens == {NoToken, Garbage} \cup UNION {Variants(t) : t \in IssuedTokens}

AnyCredentials ==
    {NoHeader, Cred("Basic", Garbage)}
        \cup {Cred("Bearer", t) : t \in PresentedTokens}

ClientCredentials ==
    {NoHeader} \cup {Cred("Bearer", p.access) : p \in issued}

UserIDs == {U(1), BigID, BigID1}
ItemIDs == 1 .. MaxItems
LocationIDs == 1 .. MaxLocations
ItemBodies ==
    [id : {Absent, 0} \cup ItemIDs, user_id : {U(2)},
     location_id : {Absent} \cup LocationIDs]
LocationBodies ==
    [id : {Absent} \cup (LocationIDs \ {1}), user_id : {U(0), U(2)},
     name : {1, 2}]
AnItemBody == [id |-> 0, user_id |-> U(2), location_id |-> 1]
ALocationBody == [id |-> Absent, user_id |-> U(0), name |-> 1]

TickSteps == {AccessTTL - 1, AccessTTL, AccessTTL + 1}

-----------------------------------------------------------------------------
(* Specifications                                                          *)

PublicLocation == [user_id |-> U(0), name |-> 1]

\* a database that holds one public location and nothing else
Init ==
    /\ users = EmptyTable
    /\ userSeq = 0
    /\ items = EmptyTable
    /\ itemSeq = 0
    /\ locations = Put(EmptyTable, 1, PublicLocation)
    /\ locSeq = 1
    /\ now = 1
    /\ ticks = 0
    /\ issued = {}
    /\ resp = NoResp
    /\ pending = NoHandler

\* the library releases that differ on this token at this second
LibsAt(tok) ==
    IF tok.exp = now THEN JwtVersions ELSE {"exp-exclusive"}

\* the auth routes and the user routes, used with the tokens the service
\* issued, and one protected read
NextAuth ==
    \/ \E in \in {<<"a@x.io", Password1>>, <<"a@x.io", ShortPassword>>,
                  <<BadEmail, Password1>>} : Register(in[1], in[2])
    \/ \E e \in {"a@x.io", "c@x.io", BadEmail},
          pw \in {Password1, Password2, NoPassword} : Login(e, pw)
    \/ \E t \in IssuedTokens : \E lib \in LibsAt(t) : RefreshToken(t, lib)
    \/ \E in \in {<<U(0), "a@x.io">>, <<BigID, "b@x.io">>,
                  <<BigID1, "c@x.io">>} : CreateUser(in[1], in[2])
    \/ \E c \in ClientCredentials, id \in UserIDs :
           \E lib \in LibsAt(c.token) : UpdateUser(c, lib, id, "", Password1)
    \/ \E c \in ClientCredentials, id \in UserIDs :
           \E lib \in LibsAt(c.token) : DeleteUser(c, lib, id)
    \/ \E c \in {NoHeader} \cup {Cred("Bearer", t) : t \in IssuedTokens} :
           \E lib \in LibsAt(c.token) : GetAllItems(c, lib)
    \/ \E d \in TickSteps : Tick(d)

SpecAuth == Init /\ [][NextAuth]_vars

\* one account, and every kind of credential sent to a protected route and
\* to the refresh route
NextGate ==
    \/ Register("a@x.io", Password1)
    \/ Login("a@x.io", Password1)
    \/ \E t \in PresentedTokens : \E lib \in LibsAt(t) : RefreshToken(t, lib)
    \/ \E c \in AnyCredentials : \E lib \in LibsAt(c.token) : GetAllItems(c, lib)
    \/ \E d \in TickSteps : Tick(d)

SpecGate == Init /\ [][NextGate]_vars

\* registration and the item and location routes
StoreEmail == <<"a@x.io", "b@x.io">>
StoreLib == "exp-exclusive"
NextStore ==
    \/ /\ userSeq < Len(StoreEmail)
       /\ Register(StoreEmail[userSeq + 1], Password1)
    \/ \E c \in ClientCredentials, b \in ItemBodies :
           /\ b.location_id # Absent /\ b.id # Absent
           /\ c = NoHeader => b = AnItemBody
           /\ CreateItem(c, StoreLib, b)
    \/ \E c \in ClientCredentials, i \in ItemIDs : GetItem(c, StoreLib, i)
    \/ \E c \in ClientCredentials, i \in ItemIDs, b \in ItemBodies :
           /\ c = NoHeader => b = AnItemBody
           /\ UpdateItem(c, StoreLib, i, b)
    \/ \E c \in ClientCredentials, i \in ItemIDs : DeleteItem(c, StoreLib, i)
    \/ \E c \in ClientCredentials, b \in LocationBodies :
           /\ c = NoHeader => b = ALocationBody
           /\ CreateLocation(c, StoreLib, b)
    \/ \E c \in ClientCredentials, l \in LocationIDs :
           GetLocation(c, StoreLib, l)
    \/ \E c \in ClientCredentials, l \in LocationIDs, b \in LocationBodies :
           /\ c = NoHeader => b = ALocationBody
           /\ UpdateLocation(c, StoreLib, l, b)
    \/ \E c \in ClientCredentials, l \in LocationIDs :
           DeleteLocation(c, StoreLib, l)

SpecStore == Init /\ [][NextStore]_vars

\* accounts: registration, login, and the user routes changing emails and
\* passwords
NextAccounts ==
    \/ \E e \in {"a@x.io", "b@x.io"}, pw \in {Password1, LongPassword} :
           Register(e, pw)
    \/ \E e \in {"a@x.io", "b@x.io"},
          pw \in {Password1, Password2, LongPassword, LongerPassword,
                  NulPassword} : Login(e, pw)
    \/ \E e \in {"a@x.io", "b@x.io"} : CreateUser(U(0), e)
    \/ \E c \in ClientCredentials, id \in {U(1), U(2)},
          in \in {<<"", Password2>>, <<"a@x.io", NoPassword>>,
                  <<"b@x.io", NoPassword>>} :
           UpdateUser(c, StoreLib, id, in[1], in[2])
    \/ \E c \in ClientCredentials, id \in {U(1), U(2)} :
           DeleteUser(c, StoreLib, id)

SpecAccounts == Init /\ [][NextAccounts]_vars

\* the collection reads, over stores written by the item and location routes
Dates == {Absent, BadDate, 0, 1}
NextReads ==
    \/ /\ userSeq < Len(StoreEmail)
       /\ Register(StoreEmail[userSeq + 1], Password1)
    \/ \E c \in ClientCredentials \ {NoHeader}, b \in ItemBodies :
           /\ b.location_id # Absent /\ b.id = 0
           /\ CreateItem(c, StoreLib, b)
    \/ \E c \in ClientCredentials \ {NoHeader}, i \in ItemIDs,
          b \in ItemBodies :
           /\ b.id \in ItemIDs /\ b.location_id = Absent
           /\ UpdateItem(c, StoreLib, i, b)
    \/ \E c \in ClientCredentials \ {NoHeader} :
           CreateLocation(c, StoreLib, ALocationBody)
    \/ \E c \in ClientCredentials : GetAllItems(c, StoreLib)
    \/ \E c \in ClientCredentials, l \in LocationIDs :
           GetItemByLocation(c, StoreLib, l)
    \/ \E c \in ClientCredentials, u \in {U(1), U(2), BigID} :
           GetItemByUser(c, StoreLib, u)
    \/ \E c \in ClientCredentials, d \in Dates : GetItemByDate(c, StoreLib, d)
    \/ \E c \in ClientCredentials,
          r \in {<<Absent, 0>>, <<BadDate, 0>>, <<0, BadDate>>,
                 <<0, 1>>, <<1, 1>>} :
           GetItemByDateRange(c, StoreLib, r[1], r[2])
    \/ \E c \in ClientCredentials,
          pg \in {<<0, 1>>, <<1, 0>>, <<1, MaxPageSize + 1>>, <<1, 1>>,
                  <<2, 1>>, <<1, 2>>} :
           GetItemByPage(c, StoreLib, pg[1], pg[2])
    \/ \E c \in ClientCredentials, l \in LocationIDs, d \in Dates :
           GetItemByLocationAndDate(c, StoreLib, l, d)
    \/ \E c \in ClientCredentials : GetUserLocations(c, StoreLib)

SpecReads == Init /\ [][NextReads]_vars

\* every route that writes, called with and without a usable credential, by
\* owners and by others, with well-formed and with malformed bodies
FaultCredentials ==
    ClientCredentials
        \cup {Cred("Basic", Garbage), Cred("Bearer", Garbage)}
        \cup {Cred("Bearer", p.refresh) : p \in issued}
NextFaults ==
    \/ \E in \in {<<"a@x.io", Password1>>, <<"b@x.io", Password1>>,
                  <<"a@x.io", ShortPassword>>, <<BadEmail, Password1>>} :
           Register(in[1], in[2])
    \/ \E c \in FaultCredentials, b \in {AnItemBody, Malformed} :
           CreateItem(c, StoreLib, b)
    \/ \E c \in FaultCredentials, i \in ItemIDs,
          b \in {[AnItemBody EXCEPT !.id = Absent], Malformed} :
           UpdateItem(c, StoreLib, i, b)
    \/ \E c \in FaultCredentials, i \in ItemIDs : DeleteItem(c, StoreLib, i)
    \/ \E c \in FaultCredentials, b \in {ALocationBody, Malformed} :
           CreateLocation(c, StoreLib, b)
    \/ \E c \in FaultCredentials, l \in LocationIDs,
          b \in {[ALocationBody EXCEPT !.name = 2], Malformed} :
           UpdateLocation(c, StoreLib, l, b)
    \/ \E c \in FaultCredentials, l \in LocationIDs :
           DeleteLocation(c, StoreLib, l)

SpecFaults == Init /\ [][NextFaults]_vars

\* the location routes used by every identity on private and public
\* locations, and the item routes with bodies that carry a "location" object
NestedLocations ==
    {[id |-> Absent, user_id |-> U(0), name |-> 2],
     [id |-> Absent, user_id |-> U(2), name |-> 2],
     [id |-> 1, user_id |-> U(2), name |-> 2]}
NestedItemBodies ==
    {[id |-> Absent, user_id |-> U(2), location_id |-> Absent,
      location |-> l] : l \in NestedLocations}
NextPublic ==
    \/ /\ userSeq < Len(StoreEmail)
       /\ Register(StoreEmail[userSeq + 1], Password1)
    \/ \E c \in ClientCredentials,
          b \in {ALocationBody, [ALocationBody EXCEPT !.name = 2]} :
           CreateLocation(c, StoreLib, b)
    \/ \E c \in ClientCredentials, l \in LocationIDs :
           UpdateLocation(c, StoreLib, l, [ALocationBody EXCEPT !.name = 2])
    \/ \E c \in ClientCredentials, l \in LocationIDs :
           DeleteLocation(c, StoreLib, l)
    \/ \E c \in ClientCredentials, b \in {AnItemBody} \cup NestedItemBodies :
           CreateItem(c, StoreLib, b)
    \/ \E c \in ClientCredentials, i \in ItemIDs, b \in NestedItemBodies :
           UpdateItem(c, StoreLib, i, b)
    \/ \E c \in ClientCredentials, i \in ItemIDs : DeleteItem(c, StoreLib, i)

SpecPublic == Init /\ [][NextPublic]_vars

\* two accounts; items and locations created, updated and deleted, with one
\* update or delete handler at a time stopped between its read and its write
\* while other requests run
RaceItemBodies ==
    [id : {Absent}, user_id : {U(2)}, location_id : LocationIDs]
NextRace ==
    \/ /\ userSeq < Len(StoreEmail)
       /\ Register(StoreEmail[userSeq + 1], Password1)
    \/ \E c \in ClientCredentials \ {NoHeader}, b \in RaceItemBodies :
           CreateItem(c, StoreLib, b)
    \/ \E c \in ClientCredentials \ {NoHeader}, i \in ItemIDs :
           DeleteItem(c, StoreLib, i)
    \/ \E c \in ClientCredentials \ {NoHeader} :
           CreateLocation(c, StoreLib, ALocationBody)
    \/ \E c \in ClientCredentials \ {NoHeader}, l \in LocationIDs :
           DeleteLocation(c, StoreLib, l)
    \/ \E c \in ClientCredentials, i \in ItemIDs :
           UpdateItemRead(c, StoreLib, i)
    \/ \E b \in RaceItemBodies : UpdateItemWrite(b)
    \/ \E c \in ClientCredentials, l \in LocationIDs :
           UpdateLocationRead(c, StoreLib, l)
    \/ UpdateLocationWrite([ALocationBody EXCEPT !.name = 2])
    \/ \E c \in ClientCredentials, l \in LocationIDs :
           DeleteLocationRead(c, StoreLib, l)
    \/ DeleteLocationWrite

SpecRace == Init /\ [][NextRace]_vars

-----------------------------------------------------------------------------
(* Properties of the Auth Gate and the refresh route (SpecGate)            *)

Protected == {"GetAllItems", "GetItem", "CreateItem", "UpdateItem",
              "DeleteItem", "CreateLocation", "GetLocation", "UpdateLocation",
              "DeleteLocation", "UpdateUser", "DeleteUser"}

\* the step is a request handled at time now (not a step of the clock)
Request == now' = now

SentBearer(r) == r.op \in Protected /\ r.cred.scheme = "Bearer"
SentRefresh(r) == r.op = "RefreshToken" /\ r.cred.token # NoToken

\* C5: type confusion is always rejected: the middleware never authenticates
\* a request that presents a refresh token, and RefreshToken mints nothing
\* for an access token, even when the token is correctly signed and unexpired.
C5_TypeConfusionRejected ==
    [][/\ (SentBearer(resp') /\ resp'.cred.token.typ = "refresh")
            => (resp'.status = 401 /\ ~resp'.ran /\ resp'.user_id = NoUser)
       /\ (SentRefresh(resp') /\ resp'.cred.token.typ = "access")
            => (resp'.status = 401 /\ resp'.minted = {} /\ issued' = issued)
      ]_vars

\* an issued, unexpired access token was sent to the refresh route
C5_Witness ==
    /\ resp.op = "RefreshToken"
    /\ \E p \in issued : resp.cred.token = p.access /\ now < p.access.exp
    /\ resp.status = 401

\* C6: a token signed with another secret is rejected by the middleware and
\* by RefreshToken, whatever its claims are.
C6_ForeignSecretRejected ==
    /\ (SentBearer(resp) /\ ~resp.cred.token.malformed
          /\ resp.cred.token.key # JWT_SECRET_KEY)
         => (resp.status = 401 /\ ~resp.ran /\ resp.user_id = NoUser)
    /\ (SentRefresh(resp) /\ ~resp.cred.token.malformed
          /\ resp.cred.token.key # JWT_SECRET_KEY)
         => (resp.status = 401 /\ resp.minted = {})

\* a token with the claims of an unexpired access token, signed with another
\* secret, was sent to a protected route
C6_Witness ==
    /\ SentBearer(resp)
    /\ resp.cred.token.key = OtherSecret
    /\ resp.cred.token.alg = "HS256"
    /\ resp.cred.token.typ = "access"
    /\ now < resp.cred.token.exp
    /\ resp.status = 401

\* C7: a token whose declared algorithm is not HS256 is rejected by the
\* middleware and by RefreshToken, even if its signature verifies against the
\* process secret.
C7_OnlyHS256Accepted ==
    /\ (SentBearer(resp) /\ ~resp.cred.token.malformed
          /\ resp.cred.token.alg # "HS256")
         => (resp.status = 401 /\ ~resp.ran)
    /\ (SentRefresh(resp) /\ ~resp.cred.token.malformed
          /\ resp.cred.token.alg # "HS256")
         => (resp.status = 401 /\ resp.minted = {})

\* the token is refused by the verifier at time t: jwt.Parse fails (not a
\* token, a method that is not HMAC, a signature under another key, expired,
\* issued in the future) or the claims are not those of an access token
FailsVerification(tok, t) ==
    \/ tok.malformed
    \/ tok.alg \notin HMACMethods
    \/ tok.key # JWT_SECRET_KEY
    \/ t > tok.exp
    \/ t < tok.iat
    \/ tok.typ # "access"
    \/ tok.user_id = NoUser

ClaimShapeFailure(tok, t) ==
    /\ ~tok.malformed /\ tok.alg \in HMACMethods /\ tok.key = JWT_SECRET_KEY
    /\ t <= tok.exp /\ tok.iat <= t
    /\ tok.typ = "access" /\ tok.user_id = NoUser

-----------------------------------------------------------------------------
(* Properties of issued tokens over the life of accounts (SpecAuth)        *)

\* C4: for every subject s, the access token of generateTokens(s) presented
\* to a protected route before its expiry is accepted with identity exactly
\* s, and presented after its expiry is rejected: 401, handler not run.
C4_AccessTokenRoundTrip ==
    [][\A p \in issued :
         (/\ Request
          /\ resp'.op \in Protected
          /\ resp'.cred = Cred("Bearer", p.access))
         => /\ now < p.access.exp
                => (resp'.ran /\ resp'.user_id = p.subject)
            /\ now > p.access.exp
                => (resp'.status = 401 /\ ~resp'.ran)
      ]_vars

\* C10: RefreshToken given the unexpired refresh token of a pair issued to a
\* subject whose account has since been deleted answers 401 and mints
\* nothing.
C10_DeletedAccountCannotRefresh ==
    [][\A p \in issued :
         (/\ Request
          /\ resp'.op = "RefreshToken"
          /\ resp'.cred.token = p.refresh
          /\ now < p.refresh.exp
          /\ p.subject \in DOMAIN users
          /\ users[p.subject].deleted)
         => (resp'.status = 401 /\ resp'.minted = {} /\ issued' = issued)
      ]_vars

\* C11: a successful refresh mints a new pair for the subject of the
\* presented refresh token and records nothing in the store; the presented
\* token stays usable: whenever it is presented again before its expiry while
\* its subject's account is live, the refresh succeeds again.
C11_RefreshRenewsSameSubject ==
    [][\A p \in issued :
         (/\ Request
          /\ resp'.op = "RefreshToken"
          /\ resp'.cred.token = p.refresh)
         => /\ resp'.status = 200
                => /\ resp'.minted = {generateTokens(p.subject, now)}
                   /\ issued' = issued \cup resp'.minted
                   /\ UNCHANGED <<users, userSeq, items, itemSeq,
                                  locations, locSeq>>
            /\ (now < p.refresh.exp /\ p.subject \in Live(users))
                => resp'.status = 200
      ]_vars

\* C12: every pair issued by generateTokens holds one token of type "access"
\* and one of type "refresh" with the same subject, and the access token
\* expires strictly before the refresh token.
C12_PairShape ==
    \A p \in issued :
        /\ p.access.typ = "access"
        /\ p.refresh.typ = "refresh"
        /\ p.access.user_id = p.subject
        /\ p.refresh.user_id = p.subject
        /\ p.access.exp < p.refresh.exp

\* pairs have been issued by a registration, a login and a refresh
C12_Witness ==
    /\ resp.op = "RefreshToken"
    /\ resp.status = 200
    /\ resp.minted # {}
    /\ Cardinality(issued) >= 2

-----------------------------------------------------------------------------
(* Properties of accounts and login (SpecAccounts)                         *)

\* the live records holding the email of the request
RecordsOf(u, email) == {id \in Live(u) : u[id].email = email}

\* the request was a login attempt with a well-formed body
LoginAttempt(r) ==
    /\ r.op = "Login"
    /\ ValidEmail(r.input.email)
    /\ r.input.password # NoPassword

\* C13: Login answers an unknown email and a known email with a wrong
\* password with the same status and body.
C13_LoginFailuresUniform ==
    [][(LoginAttempt(resp') /\ resp'.minted = {})
         => resp' = PublicWith("Login", resp'.input.email,
                               resp'.input.password,
                               401, MsgInvalidCredentials)
      ]_vars

\* a login with the email of a live record and a wrong password was refused
C13_Witness ==
    /\ LoginAttempt(resp)
    /\ resp.status = 401
    /\ \E id \in RecordsOf(users, resp.input.email) :
           /\ users[id].lastSet # NoPassword
           /\ users[id].lastSet # resp.input.password

\* C14: Login issues a pair if and only if a live record holds the submitted
\* email and the submitted password is the one most recently set for it (at
\* registration or by a later change); otherwise no tokens are issued; the
\* subject of the issued tokens is that record's id.
C14_LoginIffLastPassword ==
    [][LoginAttempt(resp') =>
         LET match == {id \in RecordsOf(users, resp'.input.email) :
                          /\ users[id].lastSet # NoPassword
                          /\ users[id].lastSet = resp'.input.password}
         IN /\ resp'.minted # {} => match # {}
            /\ resp'.minted = {} => (match = {} /\ issued' = issued)
            /\ \A p \in resp'.minted : p.subject \in match
      ]_vars

\* C15: no two credential records share an email, and a registration that
\* would break this fails atomically: no record is created and no tokens are
\* returned.
C15_EmailUnique ==
    [][/\ \A i, j \in DOMAIN users' :
              users'[i].email = users'[j].email => i = j
       /\ (resp'.op = "Register"
             /\ \E i \in DOMAIN users : users[i].email = resp'.input.email)
            => (users' = users /\ issued' = issued /\ resp'.minted = {})
      ]_vars

\* a registration with the email of an existing record was refused
C15_Witness ==
    /\ resp.op = "Register"
    /\ resp.status # 201
    /\ \E i \in DOMAIN users : users[i].email = resp.input.email
    /\ Cardinality(DOMAIN users) >= 2

ClientErrors == 400 .. 499

\* C16: registering with an email that is already registered is answered
\* with a client error carrying a specific message, not with a server fault.
C16_DuplicateEmailIsClientError ==
    [][(resp'.op = "Register"
          /\ \E i \in DOMAIN users : users[i].email = resp'.input.email)
         => (resp'.status \in ClientErrors /\ resp'.body # "")
      ]_vars

-----------------------------------------------------------------------------
(* Properties of the ownership policy (SpecStore)                          *)

Private(row) == ~IsZero(row.user_id)

\* C1: an item or private location of identity A is never returned to
\* another identity B by GetItem or GetLocation, and is never changed or
\* removed by a request of B; public locations are readable by any
\* authenticated identity.
C1_OwnershipIsolation ==
    [][/\ resp'.op = "GetItem"
            => \A row \in resp'.data : row.user_id = resp'.user_id
       /\ resp'.op = "GetLocation"
            => \A row \in resp'.data :
                   Private(row) => row.user_id = resp'.user_id
       /\ resp'.op \in {"UpdateItem", "DeleteItem"}
            => \A i \in DOMAIN items :
                   items[i].user_id # resp'.user_id
                       => (i \in DOMAIN items' /\ items'[i] = items[i])
       /\ resp'.op \in {"UpdateLocation", "DeleteLocation"}
            => \A l \in DOMAIN locations :
                   (Private(locations[l])
                      /\ locations[l].user_id # resp'.user_id)
                       => (l \in DOMAIN locations'
                             /\ locations'[l] = locations[l])
      ]_vars

\* C2: the owner recorded in an item or a location never changes while the
\* record exists, whatever requests are made, update requests whose body
\* names another record id or another owner included.
C2_OwnerImmutable ==
    [][/\ \A i \in DOMAIN items \cap DOMAIN items' :
              items'[i].user_id = items[i].user_id
       /\ \A l \in DOMAIN locations \cap DOMAIN locations' :
              locations'[l].user_id = locations[l].user_id
      ]_vars

\* C3: CreateItem and CreateLocation store the new resource with owner equal
\* to the authenticated identity of the request, whatever owner id the body
\* supplies.
C3_CreateStampsOwner ==
    /\ (resp.op = "CreateItem" /\ resp.status = 201)
         => /\ resp.target \in DOMAIN items
            /\ items[resp.target].user_id = resp.user_id
    /\ (resp.op = "CreateLocation" /\ resp.status = 201)
         => /\ resp.target \in DOMAIN locations
            /\ locations[resp.target].user_id = resp.user_id

\* an item was created by a request whose body names another owner
C3_Witness ==
    /\ resp.op = "CreateItem"
    /\ resp.status = 201
    /\ resp.owner # resp.user_id
    /\ resp.owner \in DOMAIN users

\* the request passed the middleware with an identity
Authenticated(r) == r.ran /\ r.user_id # NoUser

\* C17: a single-record read succeeds whenever the resource exists and its
\* owner is the authenticated identity and, for locations, also whenever the
\* location is public, for every authenticated identity.
C17_OwnerAndPublicReadsSucceed ==
    [][/\ (/\ resp'.op = "GetItem"
           /\ Authenticated(resp')
           /\ resp'.target \in DOMAIN items
           /\ items[resp'.target].user_id = resp'.user_id)
          => /\ resp'.status = 200
             /\ resp'.data = {Preload(items[resp'.target])}
       /\ (/\ resp'.op = "GetLocation"
           /\ Authenticated(resp')
           /\ resp'.target \in DOMAIN locations
           /\ \/ locations[resp'.target].user_id = resp'.user_id
              \/ ~Private(locations[resp'.target]))
          => /\ resp'.status = 200
             /\ resp'.data = {locations[resp'.target]}
      ]_vars

\* a registered identity has read a public location
C17_Witness ==
    /\ resp.op = "GetLocation"
    /\ resp.status = 200
    /\ resp.user_id \in DOMAIN users
    /\ \E row \in resp.data : ~Private(row)

\* C19: UpdateItem and UpdateLocation succeed only when the owner of the
\* addressed resource is the authenticated identity, and after a successful
\* update the addressed resource has the owner it had before, whatever owner
\* the body names.
C19_UpdateByOwnerKeepsOwner ==
    [][/\ (resp'.op = "UpdateItem" /\ resp'.status = 200)
          => /\ resp'.target \in DOMAIN items
             /\ items[resp'.target].user_id = resp'.user_id
             /\ resp'.target \in DOMAIN items'
             /\ items'[resp'.target].user_id = items[resp'.target].user_id
       /\ (resp'.op = "UpdateLocation" /\ resp'.status = 200)
          => /\ resp'.target \in DOMAIN locations
             /\ locations[resp'.target].user_id = resp'.user_id
             /\ resp'.target \in DOMAIN locations'
             /\ locations'[resp'.target].user_id
                    = locations[resp'.target].user_id
      ]_vars

\* an item was updated by its owner with a body naming another owner
C19_Witness ==
    /\ resp.op = "UpdateItem"
    /\ resp.status = 200
    /\ resp.owner # resp.user_id
    /\ resp.target \in DOMAIN items
    /\ items[resp.target].user_id = resp.user_id

\* C20: DeleteLocation by the owner of a location that at least one item
\* points at is answered with a client error, and the location stays in the
\* store unchanged.
C20_DeleteLinkedLocationRefused ==
    [][(/\ resp'.op = "DeleteLocation"
        /\ Authenticated(resp')
        /\ resp'.target \in DOMAIN locations
        /\ locations[resp'.target].user_id = resp'.user_id
        /\ \E i \in DOMAIN items : items[i].location_id = resp'.target)
       => /\ resp'.status \in ClientErrors
          /\ resp'.body = MsgLocationLinked
          /\ locations' = locations
          /\ items' = items
      ]_vars

\* the owner of a location with an item in it asked for its deletion
C20_Witness ==
    /\ resp.op = "DeleteLocation"
    /\ resp.status = 400
    /\ resp.target \in DOMAIN locations
    /\ locations[resp.target].user_id = resp.user_id
    /\ \E i \in DOMAIN items : items[i].location_id = resp.target

\* the item routes that answer with a list, and the location route that does
ItemCollectionReads ==
    {"GetAllItems", "GetItemByLocation", "GetItemByUser", "GetItemByDate",
     "GetItemByDateRange", "GetItemByPage", "GetItemByLocationAndDate"}

\* C18: every collection read returns only resources owned by the
\* authenticated identity, plus public locations for GetUserLocations; no
\* private resource of another identity is in the response: not as a listed
\* row, not as the location carried inside a listed item.
C18_CollectionsOwnedOnly ==
    [][/\ resp'.op \in ItemCollectionReads
            => \A row \in resp'.data :
                   /\ row.user_id = resp'.user_id
                   /\ Private(row.location)
                        => row.location.user_id = resp'.user_id
       /\ resp'.op = "GetUserLocations"
            => \A row \in resp'.data :
                   Private(row) => row.user_id = resp'.user_id
      ]_vars

-----------------------------------------------------------------------------
(* Existence leaks, faults and the frame of the store (SpecStore)          *)

\* C21: a single-record read of an existing item or private location by an
\* identity that does not own it is answered exactly as the same read of an
\* id that does not exist, so the answer does not tell a non-owner whether
\* the record exists.
C21_NonOwnerReadLooksAbsent ==
    [][/\ (resp'.op = "GetItem" /\ Authenticated(resp'))
          => /\ resp'.target \notin DOMAIN items
                 => <<resp'.status, resp'.body>> = <<404, MsgItemNotFound>>
             /\ (/\ resp'.target \in DOMAIN items
                 /\ items[resp'.target].user_id # resp'.user_id)
                 => <<resp'.status, resp'.body>> = <<404, MsgItemNotFound>>
       /\ (resp'.op = "GetLocation" /\ Authenticated(resp'))
          => /\ resp'.target \notin DOMAIN locations
                 => <<resp'.status, resp'.body>> = <<404, MsgLocationDenied>>
             /\ (/\ resp'.target \in DOMAIN locations
                 /\ Private(locations[resp'.target])
                 /\ locations[resp'.target].user_id # resp'.user_id)
                 => <<resp'.status, resp'.body>> = <<404, MsgLocationDenied>>
      ]_vars

\* C22: when the item (or location) an update handler has read and checked
\* is deleted by another request before the handler writes, the write does
\* not bring the deleted record back and changes no other record.
C22_LateWriteKeepsDeletedGone ==
    [][/\ (/\ pending.op = "UpdateItem"
           /\ pending' = NoHandler
           /\ pending.target \notin DOMAIN items)
          => items' = items
       /\ (/\ pending.op = "UpdateLocation"
           /\ pending' = NoHandler
           /\ pending.target \notin DOMAIN locations)
          => locations' = locations
      ]_vars

\* the three kinds of fault a request can end in
AuthFault(r) == r.op \in Protected /\ (~r.ran \/ r.status = 401)
OwnershipFault(r) ==
    \/ r.status = 403
    \/ r.body \in {MsgLocationDenied, MsgLocationNoUpdate, MsgLocationNoDelete}
ValidationFault(r) == r.status = 400

\* C23: a request that ends in an auth fault, an ownership fault or a
\* validation fault leaves every table and every sequence as it was: no
\* record is created, modified or deleted, and no token is issued.
C23_FaultsLeaveStoreUnchanged ==
    [][(/\ Request
        /\ \/ AuthFault(resp')
           \/ OwnershipFault(resp')
           \/ ValidationFault(resp'))
       => /\ users' = users /\ userSeq' = userSeq
          /\ items' = items /\ itemSeq' = itemSeq
          /\ locations' = locations /\ locSeq' = locSeq
          /\ issued' = issued
      ]_vars

\* the owner of an item sent an update whose body does not bind
C23_Witness ==
    /\ resp.op = "UpdateItem"
    /\ resp.status = 400
    /\ resp.target \in DOMAIN items
    /\ items[resp.target].user_id = resp.user_id

\* the locations removed so far: ids the sequence has given out whose row is
\* gone (rows leave the table through DeleteLocation only)
Removed(t, seq) == (1 .. seq) \ DOMAIN t

\* C24: whatever the interleaving of DeleteLocation with CreateItem and
\* UpdateItem requests of any identity, no stored item points at a location
\* that a successful DeleteLocation has removed; and a DeleteLocation that
\* succeeds has found no item of any owner pointing at the location.
C24_NoItemAtRemovedLocation ==
    [][/\ \A i \in DOMAIN items' :
              items'[i].location_id \notin Removed(locations', locSeq')
       /\ (/\ resp'.op = "DeleteLocation"
           /\ resp'.status = 200
           /\ pending = NoHandler
           /\ Request
           /\ resp' # resp)
          => \A i \in DOMAIN items : items[i].location_id # resp'.target
      ]_vars

\* the rows of the locations table that are public
PublicRows(t) == {<<l, t[l]>> : l \in {k \in DOMAIN t : ~Private(t[k])}}

LocationWrites == {"CreateLocation", "UpdateLocation", "DeleteLocation"}

\* C25: no request creates, changes or removes a public location:
\* CreateLocation stores a non-zero owner, a location handler answers an
\* identity of 0 with 401, and UpdateLocation and DeleteLocation addressed
\* to a public location are refused for every identity.
C25_PublicLocationsUntouched ==
    [][/\ PublicRows(locations') = PublicRows(locations)
       /\ (resp'.op = "CreateLocation" /\ resp'.status = 201)
          => Private(locations'[resp'.target])
       /\ (/\ resp'.op \in LocationWrites
           /\ resp'.ran
           /\ IsZero(GetUserID(resp')))
          => resp'.status \in {400, 401}
       /\ (/\ resp'.op \in {"UpdateLocation", "DeleteLocation"}
           /\ Request
           /\ resp'.target \in DOMAIN locations
           /\ ~Private(locations[resp'.target]))
          => resp'.status \in {401, 404}
      ]_vars

-----------------------------------------------------------------------------
(* Properties of the user routes and of expiry (SpecAccounts, SpecAuth)    *)

\* C26: UpdateUser and DeleteUser change or soft-delete a credential record
\* only when the authenticated identity of the request is the id of that
\* record: a request authenticated as B leaves the record of every other
\* identity A as it was.
C26_OnlySelfChangesAccount ==
    [][(resp'.op \in {"UpdateUser", "DeleteUser"} /\ Request)
       => \A id \in DOMAIN users :
              id # resp'.user_id
                  => (id \in DOMAIN users' /\ users'[id] = users[id])
      ]_vars

\* the access tokens the service has issued
IssuedAccess == {p.access : p \in issued}

\* C27: the middleware decides on the token, the secret and the clock alone:
\* an access token the service issued is accepted on a protected route, with
\* the token's subject as identity, at every time before the token's expiry,
\* also when the subject's account has been deleted since.
C27_DeletedAccountTokenAccepted ==
    [][(/\ Request
        /\ resp' # resp
        /\ resp'.op \in Protected
        /\ resp'.cred.scheme = "Bearer"
        /\ resp'.cred.token \in IssuedAccess
        /\ now < resp'.cred.token.exp)
       => /\ resp'.ran
          /\ resp'.user_id = resp'.cred.token.user_id
      ]_vars

====
